---- MODULE Spec2Model ----
(***************************************************************************)
(* A model of the webview2 binding (src/src/lib.rs): the HRESULT mapping,   *)
(* the lazily loaded in-memory loader library, the Stream wrapper over a   *)
(* native IStream, the reference counting of COM handles and callback      *)
(* adapter objects, the string conversions and string getters, the header  *)
(* iterator, and the property accessors.                                   *)
(***************************************************************************)
EXTENDS Integers, Sequences, FiniteSets, TLC

VARIABLES
    \* HRESULT mapping: the status or OS error code given, the Result
    \* obtained, the position, the status a Result was mapped back to, and
    \* the io::Error an Error was converted into.
    hIn, hOut, hPc, hBack, hIo,
    \* Stream: the bytes B and S of the scenario, the native stream's data,
    \* position and reference count, the host program's position, the bytes
    \* write_all still has to write, the bytes read_to_end has collected, and
    \* the log of (SeekFrom kind, origin code) of the native Seek calls.
    sB, sS, sData, sPos, sRef, sPc, sRem, sOut, sSeeks,
    \* Loader: the process-wide Lazy cell, each thread's position in build(),
    \* the number of build() calls each thread has made, what each thread's
    \* last build() returned from its loading part, the values of the cell the
    \* calls have observed, and the number of runs of MemoryLoadLibrary.
    lazy, lPc, lCalls, lRet, lObs, lLoads,
    \* Callbacks: the asynchronous operation and its one-shot completion
    \* handler, the persistent event handler registration, the reference
    \* counts of the native objects the callbacks touch, the number of
    \* handles on each the host holds, and the last handler invocation.
    op, ev, cRc, kept, cLast,
    \* Handles: the reference counts of the objects, the host's table of
    \* ComRc handles, and the last getter, drop and put.
    rRc, hs, lastGet, lastDrop, lastPut,
    \* Header iteration and string getters: the native header collection and
    \* the native iterator's position in it, the pairs next() has yielded,
    \* what next() last returned, whether it has returned None, whether every
    \* native call so far succeeded and every string decoded, the number of
    \* calls made on the iterator, the number of move_next calls next() has
    \* made, the last string getter call with its buffer events, and
    \* whether the native iterator had a current header when next() was last
    \* called.
    hdrs, iPos, iOut, iRet, iEnded, iClean, iNexts, iMoves, gLast, iHad,
    \* Properties: the native object's property (its shape and the value the
    \* native side stores), the value of the last successful put while the
    \* native side has not changed the property itself, and the last
    \* accessor call.
    prop, pPut, pLast,
    \* One-shot handler invoked from several threads: the RefCell's borrow
    \* flag and its Option (TRUE while it holds the closure), the number of
    \* runs of the host closure, and per invoking thread its position, the
    \* borrow flag it read and the Option it read.
    tk

hrVars == <<hIn, hOut, hPc, hBack, hIo>>

streamVars == <<sB, sS, sData, sPos, sRef, sPc, sRem, sOut, sSeeks>>

loaderVars == <<lazy, lPc, lCalls, lRet, lObs, lLoads>>

cbVars == <<op, ev, cRc, kept, cLast>>

rcVars == <<rRc, hs, lastGet, lastDrop, lastPut>>

strVars ==
    <<hdrs, iPos, iOut, iRet, iEnded, iClean, iNexts, iMoves, gLast, iHad>>

propVars == <<prop, pPut, pLast>>

takeVars == <<tk>>

\* What the actions of one component leave unchanged: the other components.
notHr ==
    <<streamVars, loaderVars, cbVars, rcVars, strVars, propVars, takeVars>>

notStream ==
    <<hrVars, loaderVars, cbVars, rcVars, strVars, propVars, takeVars>>

notLoader ==
    <<hrVars, streamVars, cbVars, rcVars, strVars, propVars, takeVars>>

notCb ==
    <<hrVars, streamVars, loaderVars, rcVars, strVars, propVars, takeVars>>

notRc ==
    <<hrVars, streamVars, loaderVars, cbVars, strVars, propVars, takeVars>>

notStr ==
    <<hrVars, streamVars, loaderVars, cbVars, rcVars, propVars, takeVars>>

notProp ==
    <<hrVars, streamVars, loaderVars, cbVars, rcVars, strVars, takeVars>>

notTake ==
    <<hrVars, streamVars, loaderVars, cbVars, rcVars, strVars, propVars>>

vars ==
    <<hIn, hOut, hPc, hBack, hIo, sB, sS, sData, sPos, sRef, sPc, sRem, sOut, sSeeks,
      lazy, lPc, lCalls, lRet, lObs, lLoads, op, ev, cRc, kept, cLast,
      rRc, hs, lastGet, lastDrop, lastPut,
      hdrs, iPos, iOut, iRet, iEnded, iClean, iNexts, iMoves, gLast, iHad,
      prop, pPut, pLast, tk>>

(***************************************************************************)
(* HRESULT: a signed 32-bit status code.                                   *)
(***************************************************************************)
\* Half-width of the interval of small status codes around zero.
HrSpan == 48

\* HRESULT is a signed 32-bit integer: its largest and smallest values.
I32Max == 2147483647

I32Min == -I32Max - 1

S_OK == 0

\* A success code other than S_OK.
S_FALSE == S_OK + 1

E_FAIL == -2147467259

E_INVALIDARG == -2147024809

FACILITY_WIN32 == 7

\* winapi HRESULT_FROM_WIN32 of an OS error code cast to u32: a code that is
\* zero or negative as an i32 is kept, any other becomes the failure code of
\* the Win32 facility carrying its low 16 bits.
HRESULT_FROM_WIN32(x) ==
    IF x <= 0 THEN x ELSE I32Min + FACILITY_WIN32 * 65536 + (x % 65536)

\* The status codes a caller passes: small codes around zero, the named
\* codes, and the ends of the 32-bit range.
StatusCodes ==
    (-HrSpan .. HrSpan) \cup
    {S_OK, S_FALSE, E_FAIL, E_INVALIDARG, I32Min, I32Min + 1, I32Max, I32Max - 1}

\* OS error codes: small ones, and ones around the 16 bits an HRESULT of
\* the Win32 facility has room for.
OsCodes == (-HrSpan .. HrSpan) \cup {65535, 65536, 65536 + 87, I32Max, I32Min}

\* The sign bit of a signed 32-bit value in two's complement.
SignBit(h) == IF h < 0 THEN 1 ELSE 0

\* winapi SUCCEEDED: hr >= 0.
SUCCEEDED(hr) == hr >= 0

\* Result<T>: Ok(v) or Err(Error { hresult }).
Ok(v) == [tag |-> "Ok", val |-> v, hresult |-> S_OK]

Err(h) == [tag |-> "Err", val |-> "", hresult |-> h]

NoResult == [tag |-> "None", val |-> "", hresult |-> S_OK]

check_hresult_sok(hresult) ==
    IF hresult = S_OK THEN Ok("()") ELSE Err(hresult)

check_hresult(hresult) ==
    IF SUCCEEDED(hresult) THEN Ok("()") ELSE Err(hresult)

\* io::Error: made by from_raw_os_error(code), a simple one with no OS
\* error, or a custom one of kind Other wrapping an Error.
IoNone == [repr |-> "none", kind |-> "none", code |-> 0, inner |-> S_OK]

IoOs(c) == [repr |-> "Os", kind |-> "os", code |-> c, inner |-> S_OK]

IoSimple == [repr |-> "Simple", kind |-> "UnexpectedEof", code |-> 0,
             inner |-> S_OK]

IoOther(h) == [repr |-> "Custom", kind |-> "Other", code |-> 0, inner |-> h]

\* Error::new.
Error_new(h) == [hresult |-> h]

\* MAKE_HRESULT(SEVERITY_ERROR, fac, code): the sign bit, the facility in
\* bits 16..26, the code in the low 16 bits.
MAKE_HRESULT_ERROR(fac, code) == I32Min + fac * 65536 + code

\* HRESULT_CODE: the low 16 bits.
HRESULT_CODE(h) == h % 65536

\* impl From<io::Error> for Error.
Error_from_io(e) ==
    IF e.repr = "Os" THEN Error_new(HRESULT_FROM_WIN32(e.code))
    ELSE Error_new(E_FAIL)

\* into_io_error taking every failure status for a Win32 one.
into_io_error_anyFailure(e) ==
    IF e.hresult < 0 THEN IoOs(HRESULT_CODE(e.hresult))
    ELSE IoOther(e.hresult)

\* Error::into_io_error: hresult & 0xffff0000 compared with
\* MAKE_HRESULT(SEVERITY_ERROR, FACILITY_WIN32, 0).
into_io_error(e) ==
    IF e.hresult - (e.hresult % 65536) = MAKE_HRESULT_ERROR(FACILITY_WIN32, 0)
    THEN IoOs(HRESULT_CODE(e.hresult))
    ELSE IoOther(e.hresult)

\* to_hresult with every Err mapped to E_FAIL.
to_hresult_losesCode(r) == IF r.tag = "Ok" THEN S_OK ELSE E_FAIL

\* to_hresult: Ok(_) is S_OK, Err(Error { hresult }) is hresult.
to_hresult(r) == IF r.tag = "Ok" THEN S_OK ELSE r.hresult

\* Error::hresult
hresult_of(e) == e.hresult

HrInit ==
    /\ hIn \in StatusCodes \cup OsCodes
    /\ hOut = NoResult
    /\ hPc = "input"
    /\ hBack = S_OK
    /\ hIo = IoNone

HrIdle ==
    /\ hIn = S_OK
    /\ hOut = NoResult
    /\ hPc = "input"
    /\ hBack = S_OK
    /\ hIo = IoNone

\* A caller applies check_hresult to a status.
CheckCall ==
    /\ hPc = "input"
    /\ hOut' = check_hresult(hIn)
    /\ hPc' = "checked"
    /\ UNCHANGED <<hIn, hBack, hIo, notHr>>

\* The values a host closure's Ok carries.
OkValues == {"()", "created", "string"}

\* A callback maps the Result of check_hresult back with to_hresult.
ToHresultCall ==
    /\ hPc = "checked"
    /\ hBack' = to_hresult(hOut)
    /\ hPc' = "converted"
    /\ UNCHANGED <<hIn, hOut, hIo, notHr>>

\* A callback maps the Result of a host closure, Ok of some value or
\* Err(Error::new(code)), with to_hresult.
ToHresultOf ==
    /\ hPc = "input"
    /\ \E r \in {Ok(v) : v \in OkValues} \cup {Err(hIn)} :
        /\ hOut' = r
        /\ hBack' = to_hresult(r)
    /\ hPc' = "mapped"
    /\ UNCHANGED <<hIn, hIo, notHr>>

\* An io::Error is converted into an Error: one made by
\* from_raw_os_error(hIn), or one with no raw OS error.
FromIoError ==
    /\ hPc = "input"
    /\ \E e \in {IoOs(hIn), IoSimple} :
        /\ hIo' = e
        /\ hOut' = Err(Error_from_io(e).hresult)
    /\ hPc' = "from_io"
    /\ UNCHANGED <<hIn, hBack, notHr>>

\* The Error obtained from an io::Error is converted back (the map_err of
\* the Stream's Read, Write and Seek).
IntoIoError ==
    /\ hPc = "from_io"
    /\ hIo.repr = "Os"
    /\ hIo' = into_io_error(Error_new(hOut.hresult))
    /\ hPc' = "into_io"
    /\ UNCHANGED <<hIn, hOut, hBack, notHr>>

\* A host closure returns the Err obtained from an io::Error (its `?` on an
\* io::Result) and the callback maps it with to_hresult.
ToHresultFromIo ==
    /\ hPc = "from_io"
    /\ hBack' = to_hresult(hOut)
    /\ hPc' = "from_io_mapped"
    /\ UNCHANGED <<hIn, hOut, hIo, notHr>>

\* The Error of a failed native call, Error::new(hIn), is converted into
\* an io::Error.
IntoIoErrorOf ==
    /\ hPc = "input"
    /\ hOut' = Err(hIn)
    /\ hIo' = into_io_error(Error_new(hIn))
    /\ hPc' = "to_io"
    /\ UNCHANGED <<hIn, hBack, notHr>>

HrNext ==
    \/ CheckCall
    \/ ToHresultCall
    \/ ToHresultOf
    \/ FromIoError
    \/ IntoIoError
    \/ IntoIoErrorOf
    \/ ToHresultFromIo

(***************************************************************************)
(* Stream: io::Read / io::Write / io::Seek over a native memory IStream.   *)
(***************************************************************************)
\* Longest byte sequence B or S of the scenario.
MaxBytes == 2

\* Most Current seeks the host makes between the End seek and the writes.
MaxCurrentSeeks == 1

\* Most bytes one read of read_to_end asks for.
ReadChunk == 2

Bytes == {104, 119}

ByteSeqs == UNION {[1 .. k -> Bytes] : k \in 0 .. MaxBytes}

Min(a, b) == IF a < b THEN a ELSE b

Take(s, n) == SubSeq(s, 1, Min(n, Len(s)))

Drop(s, n) == SubSeq(s, Min(n, Len(s)) + 1, Len(s))

\* The origin code io::Seek::seek passes for a SeekFrom.
SeekOrigin_endAsCurrent(kind) ==
    CASE kind = "Start" -> 0
      [] kind = "Current" -> 1
      [] kind = "End" -> 1

SeekOrigin(kind) ==
    CASE kind = "Start" -> 0
      [] kind = "Current" -> 1
      [] kind = "End" -> 2

\* The native IStream::Seek of a memory stream: the new position for an
\* origin code (STREAM_SEEK_SET, STREAM_SEEK_CUR, STREAM_SEEK_END).
NativeSeekPos(amount, origin) ==
    CASE origin = 0 -> amount
      [] origin = 1 -> sPos + amount
      [] origin = 2 -> Len(sData) + amount
      [] OTHER -> -1

\* The native IStream::Write of n bytes of buf at the position.
NativeWritten(buf, n) ==
    Take(sData, sPos) \o Take(buf, n) \o Drop(sData, sPos + n)

StreamInit ==
    /\ sB \in ByteSeqs
    /\ sS \in ByteSeqs
    /\ sData = <<>>
    /\ sPos = 0
    /\ sRef = 0
    /\ sPc = "new"
    /\ sRem = <<>>
    /\ sOut = <<>>
    /\ sSeeks = <<>>

StreamIdle ==
    /\ sB = <<>>
    /\ sS = <<>>
    /\ sData = <<>>
    /\ sPos = 0
    /\ sRef = 0
    /\ sPc = "new"
    /\ sRem = <<>>
    /\ sOut = <<>>
    /\ sSeeks = <<>>

\* Stream::from_bytes: SHCreateMemStream returns a stream holding a copy of
\* buf, positioned at 0, with one reference; ComRc::from_raw adds none.
FromBytes ==
    /\ sPc = "new"
    /\ sData' = sB
    /\ sPos' = 0
    /\ sRef' = 1
    /\ sPc' = "made"
    /\ UNCHANGED <<sB, sS, sRem, sOut, sSeeks, notStream>>

\* SHCreateMemStream returns null: the assert in from_bytes panics.
FromBytesNull ==
    /\ sPc = "new"
    /\ sPc' = "panicked"
    /\ UNCHANGED <<sB, sS, sData, sPos, sRef, sRem, sOut, sSeeks, notStream>>

\* io::Seek::seek: map the SeekFrom to (origin, amount), call the native
\* Seek, check its status.
StreamSeek(kind, amount, next) ==
    LET origin == SeekOrigin(kind)
        newPos == NativeSeekPos(amount, origin)
        hr == IF newPos < 0 THEN E_FAIL ELSE S_OK
    IN  /\ sSeeks' = Append(sSeeks, <<kind, origin>>)
        /\ sPos' = IF newPos < 0 THEN sPos ELSE newPos
        /\ sPc' = IF check_hresult(hr).tag = "Ok" THEN next ELSE "failed"

\* stream.seek(SeekFrom::End(0))
SeekEnd ==
    /\ sPc = "made"
    /\ StreamSeek("End", 0, "atEnd")
    /\ sRem' = sS
    /\ UNCHANGED <<sB, sS, sData, sRef, sOut, notStream>>

\* stream.seek(SeekFrom::Current(0)): the position stays where it is.
SeekCurrent ==
    /\ sPc = "atEnd"
    /\ Len(sSeeks) <= MaxCurrentSeeks
    /\ StreamSeek("Current", 0, "atEnd")
    /\ UNCHANGED <<sB, sS, sData, sRef, sRem, sOut, notStream>>

\* One pass of write_all's loop: io::Write::write hands the rest to the
\* native Write, which takes n of its bytes; write_all drops them from the
\* buffer and stops when it is empty.
WriteAllStep ==
    /\ sPc = "atEnd"
    /\ sRem # <<>>
    /\ \E n \in 1 .. Len(sRem) :
        /\ sData' = NativeWritten(sRem, n)
        /\ sPos' = sPos + n
        /\ sPc' = IF check_hresult(S_OK).tag = "Ok" THEN "atEnd" ELSE "failed"
        /\ sRem' = Drop(sRem, n)
    /\ UNCHANGED <<sB, sS, sRef, sOut, sSeeks, notStream>>

\* stream.seek(SeekFrom::Start(0)) once write_all has returned.
SeekStart ==
    /\ sPc = "atEnd"
    /\ sRem = <<>>
    /\ StreamSeek("Start", 0, "reading")
    /\ UNCHANGED <<sB, sS, sData, sRef, sRem, sOut, notStream>>

\* One pass of read_to_end's loop: io::Read::read asks the native Read for
\* up to len bytes; the native Read copies what is left from the position,
\* returning S_FALSE when that is fewer than asked for; read_to_end stops
\* at a read of 0 bytes.
ReadToEndStep ==
    /\ sPc = "reading"
    /\ \E len \in 1 .. ReadChunk :
        LET got == Take(Drop(sData, sPos), len)
            hr == IF Len(got) = len THEN S_OK ELSE S_FALSE
        IN  /\ sPos' = sPos + Len(got)
            /\ IF check_hresult(hr).tag = "Ok"
               THEN /\ sOut' = sOut \o got
                    /\ sPc' = IF Len(got) = 0 THEN "done" ELSE "reading"
               ELSE /\ sOut' = sOut
                    /\ sPc' = "failed"
    /\ UNCHANGED <<sB, sS, sData, sRef, sRem, sSeeks, notStream>>

\* The Stream handle goes out of scope: ComRc's drop releases once.
StreamDrop ==
    /\ sPc = "done"
    /\ sRef' = sRef - 1
    /\ sPc' = "dropped"
    /\ UNCHANGED <<sB, sS, sData, sPos, sRem, sOut, sSeeks, notStream>>

StreamNext ==
    \/ FromBytes
    \/ FromBytesNull
    \/ SeekEnd
    \/ SeekCurrent
    \/ WriteAllStep
    \/ SeekStart
    \/ ReadToEndStep
    \/ StreamDrop

(***************************************************************************)
(* Loader: build() without a DLL path, in embedded-loading mode, from      *)
(* several threads; WEBVIEW2_LOADER_LIBRARY is a once_cell Lazy.           *)
(***************************************************************************)
\* Number of threads calling build().
NThreads == 2

\* Most build() calls one thread makes.
MaxBuilds == 2

Threads == 1 .. NThreads

\* Module handles MemoryLoadLibrary may return, and OS error codes the
\* last-error value may hold after a failure.
Modules == {4096, 8192}

OsErrors == {8, 193}

LoadOutcomes ==
    {[ok |-> TRUE, v |-> m] : m \in Modules} \cup
    {[ok |-> FALSE, v |-> c] : c \in OsErrors}

LoaderInit ==
    /\ lazy = [state |-> "uninit", value |-> [ok |-> FALSE, v |-> 0]]
    /\ lPc = [t \in Threads |-> "idle"]
    /\ lCalls = [t \in Threads |-> 0]
    /\ lRet = [t \in Threads |-> NoResult]
    /\ lObs = {}
    /\ lLoads = 0

\* A thread that forces the Lazy cell runs the initializer only when no
\* thread has started it.
LazyMustInit_unsynchronized == lazy.state # "done"

LazyMustInit == lazy.state = "uninit"

\* build(self, completed) with dll_file_path = None is called.
BuildBegin(t) ==
    /\ lPc[t] = "idle"
    /\ lCalls[t] < MaxBuilds
    /\ lCalls' = [lCalls EXCEPT ![t] = @ + 1]
    /\ lPc' = [lPc EXCEPT ![t] = "force"]
    /\ lRet' = [lRet EXCEPT ![t] = NoResult]
    /\ UNCHANGED <<lazy, lObs, lLoads, notLoader>>

\* *WEBVIEW2_LOADER_LIBRARY, first forcing: this thread runs the initializer.
LazyEnter(t) ==
    /\ lPc[t] = "force"
    /\ LazyMustInit
    /\ lazy' = [lazy EXCEPT !.state = "running"]
    /\ lPc' = [lPc EXCEPT ![t] = "init"]
    /\ UNCHANGED <<lCalls, lRet, lObs, lLoads, notLoader>>

\* The initializer: MemoryLoadLibrary returns a module or 0; on 0 the raw OS
\* error is kept. The cell is set and this thread's deref yields the value.
LazyInit(t) ==
    /\ lPc[t] = "init"
    /\ \E out \in LoadOutcomes :
        /\ lazy' = [state |-> "done", value |-> out]
        /\ lObs' = lObs \cup {out}
    /\ lLoads' = lLoads + 1
    /\ lPc' = [lPc EXCEPT ![t] = "loaded"]
    /\ UNCHANGED <<lCalls, lRet, notLoader>>

\* *WEBVIEW2_LOADER_LIBRARY when the cell is set: the cached value. (While
\* another thread runs the initializer the deref blocks.)
LazyGet(t) ==
    /\ lPc[t] = "force"
    /\ lazy.state = "done"
    /\ lObs' = lObs \cup {lazy.value}
    /\ lPc' = [lPc EXCEPT ![t] = "loaded"]
    /\ UNCHANGED <<lazy, lCalls, lRet, lLoads, notLoader>>

\* The rest of the loading part of build(): a cached error returns as
\* Err(io::Error::from_raw_os_error(code).into()); otherwise
\* MemoryGetProcAddress resolves the creation function, or returns null and
\* build returns the last OS error.
BuildResolve(t) ==
    /\ lPc[t] = "loaded"
    /\ IF ~lazy.value.ok
       THEN lRet' = [lRet EXCEPT ![t] = Err(HRESULT_FROM_WIN32(lazy.value.v))]
       ELSE \E resolved \in BOOLEAN, c \in OsErrors :
                lRet' = [lRet EXCEPT ![t] =
                            IF resolved
                            THEN Ok("create_fn")
                            ELSE Err(HRESULT_FROM_WIN32(c))]
    /\ lPc' = [lPc EXCEPT ![t] = "idle"]
    /\ UNCHANGED <<lazy, lCalls, lObs, lLoads, notLoader>>


(***************************************************************************)
(* Reference counting: what the wrappers do to an object's count.          *)
(***************************************************************************)
\* add_ref_to_rc: ComPtr::new, one AddRef, upgrade to a ComRc.
add_ref_to_rc_noAddRef(count) == count

add_ref_to_rc(count) == count + 1

\* ComRc::from_raw: wraps the pointer, no AddRef.
ComRc_from_raw(count) == count

\* Drop of a ComRc: one Release.
ComRc_drop(count) == count - 1

\* ComPtr::from(ComRc): the ComRc is consumed with no Release, and a ComPtr
\* releases nothing when it goes out of scope.
ComPtr_from(count) == count

\* The count of a co_class object as allocate leaves it.
allocate_rc == 0

\* callback!'s new_ptr: allocate, one add_ref, Box::into_raw.
new_ptr_rc_noAddRef == allocate_rc

new_ptr_rc == allocate_rc + 1

\* ComPtr::as_raw: the raw pointer, the count as it is.
as_raw_rc(count) == count

(***************************************************************************)
(* Callbacks: one-shot completion handlers of the asynchronous operations  *)
(* and a persistent event handler, each a callback! adapter object.        *)
(***************************************************************************)
\* Most invocations of one completion handler by the native side.
MaxInvokes == 2

\* Most invocations of the event handler by the native side.
MaxEvents == 2

\* References the native side holds on each of its own objects.
NativeRefs == 1

OpKinds ==
    {"build", "create_controller", "capture_preview", "execute_script",
     "add_script_to_execute_on_document_created"}

\* The native objects of this component: the object a creation completes
\* with, the image stream given to capture_preview, an event's sender and
\* its args.
CbObjs == {"created", "image", "sender", "args"}

\* Statuses the native side passes and returns, and results a host closure
\* returns.
CbStatus == {S_OK, S_FALSE, E_FAIL}

HostResults == {Ok("()"), Err(E_INVALIDARG)}

OpNone ==
    [kind |-> "none", pc |-> "idle", ret |-> NoResult, cb |-> FALSE,
     adRc |-> 0, rcAtNew |-> 0, rcAtCall |-> 0, held |-> FALSE,
     invokes |-> 0, runs |-> 0, arg |-> NoResult, loaded |-> FALSE,
     optRc |-> 0, made |-> FALSE, inHr |-> S_OK, touched |-> FALSE,
     nul |-> "none", path |-> "given", embedded |-> FALSE,
     loadFailed |-> FALSE, acceptHr |-> S_OK]

EvNone ==
    [state |-> "none", adRc |-> 0, rcAtNew |-> 0, rcAtCall |-> 0,
     invokes |-> 0, runs |-> 0, native |-> FALSE, rm |-> "none",
     before |-> 0, missed |-> 0]

LastNone ==
    [who |-> "none", hr |-> S_OK, decodable |-> TRUE, hadCb |-> FALSE,
     ran |-> FALSE, panicked |-> FALSE, touched |-> FALSE, keep |-> FALSE,
     ret |-> S_OK, host |-> NoResult, before |-> [o \in CbObjs |-> 0],
     after |-> [o \in CbObjs |-> 0]]

\* The native side holds its references; the host holds the Stream it will
\* give to capture_preview.
CbInit ==
    /\ op = OpNone
    /\ ev = EvNone
    /\ cRc = [o \in CbObjs |-> IF o = "image" THEN 1 ELSE NativeRefs]
    /\ kept = [o \in CbObjs |-> IF o = "image" THEN 1 ELSE 0]
    /\ cLast = LastNone

\* The process has not aborted.
Alive == op.pc # "aborted"

\* An operation that returns before it builds its callback.
Returned(kind, r, loaded) ==
    [OpNone EXCEPT !.kind = kind, !.pc = "returned", !.ret = r,
                   !.loaded = loaded]

\* RefCell::new(Some(completed)), callback!(...), and the adapter's raw
\* pointer handed to the native call.
Calling(kind, loaded, optRc) ==
    [OpNone EXCEPT !.kind = kind, !.pc = "calling", !.cb = TRUE,
                   !.made = TRUE,
                   !.adRc = new_ptr_rc, !.rcAtNew = new_ptr_rc,
                   !.rcAtCall = as_raw_rc(new_ptr_rc), !.loaded = loaded,
                   !.optRc = optRc]

\* build() reporting a missing DLL path the way it reports a load failure.
build_errOnNoPath(path, embedded, nul, resolved, c) ==
    LET out ==
            IF path = "given" /\ nul = "dll_file_path"
            THEN Returned("build", Err(E_INVALIDARG), FALSE)
            ELSE IF ~resolved \/ (path = "none" /\ ~embedded)
            THEN [Returned("build", Err(HRESULT_FROM_WIN32(c)), TRUE)
                     EXCEPT !.loadFailed = TRUE]
            ELSE IF nul # "none"
            THEN Returned("build", Err(E_INVALIDARG), TRUE)
            ELSE Calling("build", TRUE, allocate_rc + 1)
    IN  IF out.pc = "calling" THEN out
        ELSE [out EXCEPT !.path = path, !.embedded = embedded, !.nul = nul]

\* EnvironmentBuilder::build up to the creation call, in the order of the
\* code: resolve create_fn (encode the DLL path, LoadLibraryW and
\* GetProcAddress; or, with no path, the embedded library when the
\* memory-load-library feature is compiled in and panic! when it is not),
\* then encode the folder paths, then build the options object (encode its
\* strings, allocate, add_ref), then build the completion handler.
\* nul says which string has an embedded NUL, resolved whether the load and
\* the symbol resolution succeed, c is the OS error when they do not. A
\* build that ends before the creation call keeps what it was given.
build(path, embedded, nul, resolved, c) ==
    LET out ==
            IF path = "given" /\ nul = "dll_file_path"
            THEN Returned("build", Err(E_INVALIDARG), FALSE)
            ELSE IF path = "none" /\ ~embedded
            THEN [OpNone EXCEPT !.kind = "build", !.pc = "config_panic"]
            ELSE IF ~resolved
            THEN [Returned("build", Err(HRESULT_FROM_WIN32(c)), TRUE)
                     EXCEPT !.loadFailed = TRUE]
            ELSE IF nul # "none"
            THEN Returned("build", Err(E_INVALIDARG), TRUE)
            ELSE Calling("build", TRUE, allocate_rc + 1)
    IN  IF out.pc = "calling" THEN out
        ELSE [out EXCEPT !.path = path, !.embedded = embedded, !.nul = nul]

\* The host calls build() on some builder, in a crate compiled with or
\* without the memory-load-library feature.
Build ==
    /\ op.kind = "none"
    /\ \E path \in {"given", "none"}, embedded \in BOOLEAN,
          nul \in {"none", "dll_file_path", "folder", "options"},
          resolved \in BOOLEAN, c \in OsErrors :
        /\ nul = "dll_file_path" => path = "given"
        /\ op' = build(path, embedded, nul, resolved, c)
    /\ UNCHANGED <<ev, cRc, kept, cLast, notCb>>

\* Environment::create_controller up to the native call.
CreateController ==
    /\ op.kind = "none"
    /\ op' = Calling("create_controller", FALSE, 0)
    /\ UNCHANGED <<ev, cRc, kept, cLast, notCb>>

\* WebView::capture_preview up to the native call: the Stream is consumed
\* by ComPtr::from, so the host's handle is gone and nothing is released.
CapturePreview ==
    /\ op.kind = "none"
    /\ kept["image"] > 0
    /\ op' = Calling("capture_preview", FALSE, 0)
    /\ kept' = [kept EXCEPT !["image"] = @ - 1]
    /\ cRc' = [cRc EXCEPT !["image"] = ComPtr_from(@)]
    /\ UNCHANGED <<ev, cLast, notCb>>

\* WebView::execute_script up to the native call.
ExecuteScript ==
    /\ op.kind = "none"
    /\ \E nul \in BOOLEAN :
        op' = IF nul
              THEN [Returned("execute_script", Err(E_INVALIDARG), FALSE)
                       EXCEPT !.nul = "script"]
              ELSE Calling("execute_script", FALSE, 0)
    /\ UNCHANGED <<ev, cRc, kept, cLast, notCb>>

\* WebView::add_script_to_execute_on_document_created up to the native call.
AddScriptToExecuteOnDocumentCreated ==
    /\ op.kind = "none"
    /\ \E nul \in BOOLEAN :
        op' = IF nul
              THEN [Returned("add_script_to_execute_on_document_created",
                             Err(E_INVALIDARG), FALSE)
                       EXCEPT !.nul = "script"]
              ELSE Calling("add_script_to_execute_on_document_created",
                           FALSE, 0)
    /\ UNCHANGED <<ev, cRc, kept, cLast, notCb>>

\* The native call returns: an accepted operation keeps the handler (one
\* AddRef by the native side) and, for capture_preview, the image stream;
\* the operation returns check_hresult of the status.
Accept ==
    /\ op.pc = "calling"
    /\ \E hr \in CbStatus :
        /\ op' = [op EXCEPT !.pc = "returned", !.ret = check_hresult(hr),
                            !.acceptHr = hr,
                            !.held = SUCCEEDED(hr),
                            !.adRc = IF SUCCEEDED(hr) THEN @ + 1 ELSE @]
        /\ cRc' = IF op.kind = "capture_preview" /\ SUCCEEDED(hr)
                  THEN [cRc EXCEPT !["image"] = @ + 1]
                  ELSE cRc
    /\ UNCHANGED <<ev, kept, cLast, notCb>>

\* The native side invokes a completion handler it holds, once the
\* operation has been accepted.
NativeMayInvoke ==
    /\ op.pc = "returned"
    /\ op.held
    /\ op.invokes < MaxInvokes

\* A take() that leaves the closure in the RefCell.
RefCell_take_kept(cb) == cb

\* completed.borrow_mut().take(): whether the RefCell still holds a closure
\* afterwards; take() leaves None.
RefCell_take(cb) == FALSE

\* check_hresult(result).map(|_| T { inner: add_ref_to_rc(created) })
CreatedResult_always(hr) == Ok("created")

CreatedResult(hr) ==
    IF check_hresult(hr).tag = "Ok" THEN Ok("created") ELSE Err(hr)

\* A panic inside invoke: the process aborts where it is (the Result the
\* handler built is never dropped), or the panic unwinds into the native
\* caller's frames, dropping the Result on the way.
PanicOutcomes == {"aborted", "unwound"}

\* The handlers of build and create_controller: map the status to a Result
\* (wrapping the created pointer on success), take the closure out of the
\* RefCell, unwrap it, run it on the Result. The closure keeps the handle it
\* is given or drops it.
InvokeCreated ==
    /\ NativeMayInvoke
    /\ op.kind \in {"build", "create_controller"}
    /\ \E hr \in CbStatus, r \in HostResults, keep \in BOOLEAN,
          crash \in PanicOutcomes :
        LET result == CreatedResult(hr)
            wrapped == IF result.tag = "Ok"
                       THEN [cRc EXCEPT !["created"] = add_ref_to_rc(@)]
                       ELSE cRc
            dropped == IF result.tag = "Ok"
                       THEN [wrapped EXCEPT !["created"] = ComRc_drop(@)]
                       ELSE wrapped
            keeps == keep /\ result.tag = "Ok"
            last == [LastNone EXCEPT !.who = "op", !.hr = hr,
                                     !.hadCb = op.cb, !.before = cRc,
                                     !.touched = (wrapped # cRc)]
        IN  IF ~op.cb
            THEN /\ op' = [op EXCEPT !.pc = crash, !.invokes = @ + 1,
                                     !.inHr = hr,
                                     !.touched = (wrapped # cRc)]
                 /\ cRc' = IF crash = "unwound" THEN dropped ELSE wrapped
                 /\ kept' = IF crash = "unwound" \/ wrapped = cRc
                            THEN kept
                            ELSE [kept EXCEPT !["created"] = @ + 1]
                 /\ cLast' = [last EXCEPT !.panicked = TRUE, !.after = cRc']
            ELSE /\ op' = [op EXCEPT !.cb = RefCell_take(@), !.invokes = @ + 1,
                                     !.runs = @ + 1, !.arg = result,
                                     !.inHr = hr,
                                     !.touched = (wrapped # cRc)]
                 /\ cRc' = IF keeps THEN wrapped ELSE dropped
                 /\ kept' = IF keeps
                            THEN [kept EXCEPT !["created"] = @ + 1]
                            ELSE kept
                 /\ cLast' = [last EXCEPT !.ran = TRUE, !.keep = keeps,
                                          !.ret = to_hresult(r),
                                          !.after = cRc']
    /\ UNCHANGED <<ev, notCb>>

\* The handler of capture_preview: take the closure out of the RefCell,
\* unwrap it, run it on check_hresult(result).
InvokeCapturePreview ==
    /\ NativeMayInvoke
    /\ op.kind = "capture_preview"
    /\ \E hr \in CbStatus, r \in HostResults, crash \in PanicOutcomes :
        LET last == [LastNone EXCEPT !.who = "op", !.hr = hr,
                                     !.hadCb = op.cb, !.before = cRc,
                                     !.after = cRc]
        IN  IF ~op.cb
            THEN /\ op' = [op EXCEPT !.pc = crash, !.invokes = @ + 1,
                                     !.inHr = hr]
                 /\ cLast' = [last EXCEPT !.panicked = TRUE]
            ELSE /\ op' = [op EXCEPT !.cb = RefCell_take(@), !.invokes = @ + 1,
                                     !.runs = @ + 1, !.inHr = hr,
                                     !.arg = check_hresult(hr)]
                 /\ cLast' = [last EXCEPT !.ran = TRUE, !.ret = to_hresult(r)]
    /\ UNCHANGED <<ev, cRc, kept, notCb>>

\* The handlers of execute_script and
\* add_script_to_execute_on_document_created: a failing status is returned
\* as it is; a string that does not decode gives E_FAIL; otherwise the
\* closure, if it is still in the RefCell, is taken and run on the string,
\* and if it is not the handler returns Ok.
InvokeScript ==
    /\ NativeMayInvoke
    /\ op.kind \in {"execute_script",
                    "add_script_to_execute_on_document_created"}
    /\ \E hr \in CbStatus, decodable \in BOOLEAN, r \in HostResults :
        LET last == [LastNone EXCEPT !.who = "op", !.hr = hr,
                                     !.decodable = decodable,
                                     !.hadCb = op.cb, !.before = cRc,
                                     !.after = cRc]
        IN  IF check_hresult(hr).tag # "Ok"
            THEN /\ op' = [op EXCEPT !.invokes = @ + 1, !.inHr = hr]
                 /\ cLast' = [last EXCEPT !.ret = to_hresult(check_hresult(hr))]
            ELSE IF ~decodable
            THEN /\ op' = [op EXCEPT !.invokes = @ + 1, !.inHr = hr]
                 /\ cLast' = [last EXCEPT !.ret = to_hresult(Err(E_FAIL))]
            ELSE IF op.cb
            THEN /\ op' = [op EXCEPT !.cb = RefCell_take(@), !.invokes = @ + 1,
                                     !.runs = @ + 1, !.inHr = hr,
                                     !.arg = Ok("string")]
                 /\ cLast' = [last EXCEPT !.ran = TRUE, !.ret = to_hresult(r)]
            ELSE /\ op' = [op EXCEPT !.invokes = @ + 1, !.inHr = hr]
                 /\ cLast' = [last EXCEPT !.ret = to_hresult(Ok("()"))]
    /\ UNCHANGED <<ev, cRc, kept, notCb>>

\* The native side is done with a completion handler: one Release.
NativeRelease ==
    /\ op.pc = "returned"
    /\ op.held
    /\ op.invokes > 0
    /\ op' = [op EXCEPT !.held = FALSE, !.adRc = @ - 1]
    /\ UNCHANGED <<ev, cRc, kept, cLast, notCb>>

\* add_event_handler!(...): callback!(...), the native add call with the
\* adapter's raw pointer; on success the native side keeps the handler (one
\* AddRef) and the token is returned.
AddEventHandler ==
    /\ Alive
    /\ ev.state = "none"
    /\ \E hr \in CbStatus :
        ev' = [EvNone EXCEPT
                  !.state = IF check_hresult(hr).tag = "Ok"
                            THEN "registered" ELSE "failed",
                  !.native = SUCCEEDED(hr),
                  !.rcAtNew = new_ptr_rc,
                  !.rcAtCall = as_raw_rc(new_ptr_rc),
                  !.adRc = IF SUCCEEDED(hr) THEN new_ptr_rc + 1 ELSE new_ptr_rc]
    /\ UNCHANGED <<op, cRc, kept, cLast, notCb>>

\* A handler whose closure is gone after its first run.
EventClosure_once(e) == e.runs = 0

\* Whether the handler of a registration still has its closure: it is a
\* Box<dyn Fn> the adapter object owns and calls by reference.
EventClosure(e) == TRUE

\* The native side raises the event: the handler wraps sender and args with
\* add_ref_to_rc and runs the closure on them; the closure keeps each handle
\* or drops it; the status of its result is returned.
InvokeEvent ==
    /\ Alive
    /\ ev.native
    /\ ev.invokes < MaxEvents
    /\ \E r \in HostResults, keepS \in BOOLEAN, keepA \in BOOLEAN :
        LET has == EventClosure(ev)
            kS == keepS /\ has
            kA == keepA /\ has
            wrapped == [cRc EXCEPT !["sender"] = add_ref_to_rc(@),
                                   !["args"] = add_ref_to_rc(@)]
            left == [wrapped EXCEPT
                        !["sender"] = IF kS THEN @ ELSE ComRc_drop(@),
                        !["args"] = IF kA THEN @ ELSE ComRc_drop(@)]
        IN  /\ cRc' = left
            /\ kept' = [kept EXCEPT
                          !["sender"] = IF kS THEN @ + 1 ELSE @,
                          !["args"] = IF kA THEN @ + 1 ELSE @]
            /\ cLast' = [LastNone EXCEPT !.who = "ev", !.hadCb = has,
                                         !.ran = has, !.touched = TRUE,
                                         !.keep = (kS \/ kA),
                                         !.host = IF has THEN r ELSE NoResult,
                                         !.ret = IF has THEN to_hresult(r)
                                                 ELSE S_OK,
                                         !.before = cRc, !.after = left]
            /\ ev' = [ev EXCEPT !.invokes = @ + 1,
                                !.runs = IF has THEN @ + 1 ELSE @]
    /\ UNCHANGED <<op, notCb>>

\* remove_event_handler! returning Ok without making the native call.
remove_event_handler_noCall(e, hr) ==
    [e EXCEPT !.state = "removed", !.rm = "Ok", !.before = e.invokes]

\* remove_event_handler!(...): check_hresult of the native remove call with
\* the token. When the call succeeds the native side has taken the handler
\* out of its table and let go of it (one Release); when it fails the
\* handler stays registered.
remove_event_handler(e, hr) ==
    IF check_hresult(hr).tag = "Ok"
    THEN [e EXCEPT !.state = "removed", !.native = FALSE, !.adRc = @ - 1,
                   !.rm = "Ok", !.before = e.invokes]
    ELSE [e EXCEPT !.rm = "Err"]

\* The host removes the handler with the token the registration returned.
RemoveEventHandler ==
    /\ Alive
    /\ ev.state = "registered"
    /\ \E hr \in CbStatus : ev' = remove_event_handler(ev, hr)
    /\ UNCHANGED <<op, cRc, kept, cLast, notCb>>

\* The native side raises the event after the handler was removed: no
\* handler is in its table, nothing is invoked.
RaiseAfterRemoval ==
    /\ Alive
    /\ ev.state = "removed"
    /\ ~ev.native
    /\ ev.missed < MaxEvents
    /\ ev' = [ev EXCEPT !.missed = @ + 1]
    /\ UNCHANGED <<op, cRc, kept, cLast, notCb>>

\* The host drops a handle a closure kept.
DropKept(o) ==
    /\ Alive
    /\ o \in {"created", "sender", "args"}
    /\ kept[o] > 0
    /\ kept' = [kept EXCEPT ![o] = @ - 1]
    /\ cRc' = [cRc EXCEPT ![o] = ComRc_drop(@)]
    /\ UNCHANGED <<op, ev, cLast, notCb>>

(***************************************************************************)
(* Handles: interface-typed getters and puts, Stream::from_bytes and       *)
(* from_raw, clone and drop of the host's ComRc handles.                   *)
(***************************************************************************)
\* Number of handles the host holds at a time.
MaxHandles == 2

\* Largest reference count the operations let an object reach.
MaxRc == 4

\* The objects of this component: one the native side owns and hands out
\* through getters, and the memory stream from_bytes creates.
RcObjs == {"child", "mem"}

Slots == 1 .. MaxHandles

HNone == [live |-> FALSE, obj |-> "", how |-> "", base |-> 0, clean |-> TRUE]

GetNone == [done |-> FALSE, hr |-> S_OK, bindingAddRefs |-> 0]

DropNone ==
    [done |-> FALSE, how |-> "", base |-> 0, after |-> 0, clean |-> TRUE]

PutNone == [done |-> FALSE, base |-> 0, after |-> 0, nativeAdded |-> 0]

RcInit ==
    /\ rRc = [o \in RcObjs |-> IF o = "child" THEN NativeRefs ELSE 0]
    /\ hs = [i \in Slots |-> HNone]
    /\ lastGet = GetNone
    /\ lastDrop = DropNone
    /\ lastPut = PutNone

HasFree == \E i \in Slots : ~hs[i].live

FreeSlot == CHOOSE i \in Slots : ~hs[i].live /\ \A j \in 1 .. i - 1 : hs[j].live

\* The table with a new handle on o in the free slot (or slot i emptied,
\* when o is ""), every other handle on the object marked as having seen
\* another operation change its count.
Touched(i, o, h) ==
    [j \in Slots |->
        IF j = i THEN h
        ELSE IF hs[j].live /\ hs[j].obj = o
        THEN [hs[j] EXCEPT !.clean = FALSE]
        ELSE hs[j]]

NewHandle(o, how, base) ==
    [live |-> TRUE, obj |-> o, how |-> how, base |-> base, clean |-> TRUE]

\* An interface-typed getter (get_interface!, Controller::get_webview,
\* WebView::get_settings, get_headers(name)): the native getter, on
\* success, stores the pointer in the out-parameter with one reference
\* credited to the caller; the binding wraps it with add_ref_to_rc.
GetInterface ==
    /\ HasFree
    /\ rRc["child"] + 2 <= MaxRc
    /\ \E hr \in CbStatus :
        IF check_hresult(hr).tag = "Ok"
        THEN /\ rRc' = [rRc EXCEPT !["child"] = add_ref_to_rc(@ + 1)]
             /\ hs' = Touched(FreeSlot, "child",
                              NewHandle("child", "getter", rRc["child"]))
             /\ lastGet' = [done |-> TRUE, hr |-> hr,
                            bindingAddRefs |->
                                add_ref_to_rc(rRc["child"] + 1)
                                    - (rRc["child"] + 1)]
        ELSE /\ lastGet' = [done |-> TRUE, hr |-> hr, bindingAddRefs |-> 0]
             /\ UNCHANGED <<rRc, hs>>
    /\ UNCHANGED <<lastDrop, lastPut, notRc>>

\* Stream::from_bytes: SHCreateMemStream returns a new stream with one
\* reference; ComRc::from_raw wraps it.
StreamFromBytes ==
    /\ HasFree
    /\ rRc["mem"] = 0
    /\ rRc' = [rRc EXCEPT !["mem"] = ComRc_from_raw(1)]
    /\ hs' = Touched(FreeSlot, "mem", NewHandle("mem", "raw", 0))
    /\ UNCHANGED <<lastGet, lastDrop, lastPut, notRc>>

\* Stream::from_raw on an owning pointer: the native side has credited the
\* caller with one reference; ComRc::from_raw wraps the pointer.
StreamFromRaw ==
    /\ HasFree
    /\ rRc["child"] + 1 <= MaxRc
    /\ rRc' = [rRc EXCEPT !["child"] = ComRc_from_raw(@ + 1)]
    /\ hs' = Touched(FreeSlot, "child", NewHandle("child", "raw", rRc["child"]))
    /\ UNCHANGED <<lastGet, lastDrop, lastPut, notRc>>

\* Clone of a handle: one AddRef.
CloneHandle(i) ==
    /\ hs[i].live
    /\ HasFree
    /\ rRc[hs[i].obj] + 1 <= MaxRc
    /\ rRc' = [rRc EXCEPT ![hs[i].obj] = @ + 1]
    /\ hs' = Touched(FreeSlot, hs[i].obj,
                     NewHandle(hs[i].obj, "clone", rRc[hs[i].obj]))
    /\ UNCHANGED <<lastGet, lastDrop, lastPut, notRc>>

\* Drop of a handle: one Release.
DropHandle(i) ==
    /\ hs[i].live
    /\ rRc' = [rRc EXCEPT ![hs[i].obj] = ComRc_drop(@)]
    /\ hs' = Touched(i, hs[i].obj, HNone)
    /\ lastDrop' = [done |-> TRUE, how |-> hs[i].how, base |-> hs[i].base,
                    after |-> ComRc_drop(rRc[hs[i].obj]),
                    clean |-> hs[i].clean]
    /\ UNCHANGED <<lastGet, lastPut, notRc>>

\* put_interface!(...): the handle is taken by value and turned into a
\* ComPtr, whose raw pointer goes to the native put; the native side, when
\* it keeps the object, adds its own reference.
PutInterface(i) ==
    /\ hs[i].live
    /\ rRc[hs[i].obj] + 1 <= MaxRc
    /\ \E hr \in CbStatus, nativeKeeps \in BOOLEAN :
        LET added == IF SUCCEEDED(hr) /\ nativeKeeps THEN 1 ELSE 0
            after == ComPtr_from(rRc[hs[i].obj]) + added
        IN  /\ rRc' = [rRc EXCEPT ![hs[i].obj] = after]
            /\ lastPut' = [done |-> TRUE, base |-> rRc[hs[i].obj],
                           after |-> after, nativeAdded |-> added]
    /\ hs' = Touched(i, hs[i].obj, HNone)
    /\ UNCHANGED <<lastGet, lastDrop, notRc>>

(***************************************************************************)
(* Strings and header iteration: WideCString / WideCStr conversions, the   *)
(* string getters, and Iterator for HttpHeadersCollectionIterator.         *)
(***************************************************************************)
MaxHeaders == 2

MaxNexts == MaxHeaders + 2

\* UTF-16 code units that are halves of a surrogate pair.
HighSurrogates == 55296 .. 56319

LowSurrogates == 56320 .. 57343

SurrogateBase == 65536

\* String::from_utf16 (behind WideCStr::to_string): a surrogate pair is one
\* character, a lone surrogate is an error.
RECURSIVE from_utf16(_)
from_utf16(u) ==
    IF u = <<>> THEN [ok |-> TRUE, s |-> <<>>]
    ELSE IF u[1] \in HighSurrogates
    THEN IF Len(u) >= 2 /\ u[2] \in LowSurrogates
         THEN LET r == from_utf16(SubSeq(u, 3, Len(u)))
                  c == SurrogateBase + (u[1] - 55296) * 1024 + (u[2] - 56320)
              IN  [ok |-> r.ok, s |-> IF r.ok THEN <<c>> \o r.s ELSE <<>>]
         ELSE [ok |-> FALSE, s |-> <<>>]
    ELSE IF u[1] \in LowSurrogates
    THEN [ok |-> FALSE, s |-> <<>>]
    ELSE LET r == from_utf16(Tail(u))
         IN  [ok |-> r.ok, s |-> IF r.ok THEN <<u[1]>> \o r.s ELSE <<>>]

\* str::encode_utf16 (behind WideCString::from_str).
RECURSIVE encode_utf16(_)
encode_utf16(s) ==
    IF s = <<>> THEN <<>>
    ELSE IF s[1] >= SurrogateBase
    THEN <<55296 + ((s[1] - SurrogateBase) \div 1024),
           56320 + ((s[1] - SurrogateBase) % 1024)>> \o encode_utf16(Tail(s))
    ELSE <<s[1]>> \o encode_utf16(Tail(s))

\* WideCString::from_str(s)?: the units of s, or NulError, which becomes
\* Error { hresult: E_INVALIDARG }, when s holds a NUL.
WideCString_from_str(s) ==
    LET u == encode_utf16(s)
    IN  IF \E i \in 1 .. Len(u) : u[i] = 0 THEN Err(E_INVALIDARG) ELSE Ok(u)

\* as_ptr(): the units followed by the terminator; also the layout of a
\* string buffer the native side returns.
as_ptr(u) == u \o <<0>>

\* WideCStr::from_ptr_str: the units before the first NUL.
RECURSIVE from_ptr_str(_)
from_ptr_str(buf) ==
    IF buf = <<>> \/ buf[1] = 0 THEN <<>>
    ELSE <<buf[1]>> \o from_ptr_str(Tail(buf))

\* from_ptr_str(p).to_string().map_err(|_| Error::new(E_FAIL)).
to_string(buf) ==
    LET r == from_utf16(from_ptr_str(buf))
    IN  IF r.ok THEN Ok(r.s) ELSE Err(E_FAIL)

\* Option<T>.
None == [some |-> FALSE, val |-> <<>>]

Some(v) == [some |-> TRUE, val |-> v]

\* The statuses a native call on the iterator or a string getter returns.
IterStatus == {S_OK, E_FAIL}

\* The headers of the native collections: A: 1, B: 2, a name outside the
\* basic plane, a name and a value that are lone surrogates.
HeaderPool ==
    { <<<<65>>, <<49>>>>, <<<<66>>, <<50>>>>, <<<<55357, 56832>>, <<65>>>>,
      <<<<55357>>, <<49>>>>, <<<<65>>, <<56832>>>> }

Collections == UNION {[1 .. n -> HeaderPool] : n \in 0 .. MaxHeaders}

\* A string getter call: the status of its native call, whether the call
\* was made, the units of the buffers the native side returned, the result,
\* and the events on the buffers in order.
GetterNone ==
    [who |-> "none", hr |-> S_OK, called |-> FALSE, units |-> <<>>,
     ret |-> NoResult, log |-> <<>>]

GetterCall(who, hr, called, units, r) ==
    [who |-> who, hr |-> hr, called |-> called,
     units |-> IF called /\ SUCCEEDED(hr) THEN units ELSE <<>>,
     ret |-> r.ret, log |-> r.log]

\* No iterator, no getter call.
StrIdle ==
    /\ hdrs = <<>>
    /\ iPos = 1
    /\ iOut = <<>>
    /\ iRet = None
    /\ iEnded = FALSE
    /\ iClean = TRUE
    /\ iNexts = 0
    /\ iMoves = 0
    /\ gLast = GetterNone
    /\ iHad = FALSE

\* get_headers / get_iterator returned an iterator at the first header of
\* some collection.
StrInit ==
    /\ hdrs \in Collections
    /\ iPos = 1
    /\ iOut = <<>>
    /\ iRet = None
    /\ iEnded = FALSE
    /\ iClean = TRUE
    /\ iNexts = 0
    /\ iMoves = 0
    /\ gLast = GetterNone
    /\ iHad = FALSE

\* The native iterator: whether it has a current header, and MoveNext.
NativeHasCurrent(h, pos) == IF pos <= Len(h) THEN 1 ELSE 0

NativeMoveNext(h, pos) == IF pos <= Len(h) THEN pos + 1 ELSE pos

\* get_bool! taking only the native value 1 for true.
get_bool_onlyOne(hr, native) ==
    IF check_hresult(hr).tag = "Err" THEN Err(hr) ELSE Ok(native = 1)

\* get_bool!: check_hresult(call)?, then Ok(value != 0).
get_bool(hr, native) ==
    IF check_hresult(hr).tag = "Err" THEN Err(hr) ELSE Ok(native # 0)

\* The buffer events of a getter that frees its buffers only when both
\* strings decode.
get_current_header_earlyReturn(hr, h) ==
    IF check_hresult(hr).tag = "Err"
    THEN [ret |-> Err(hr), log |-> <<>>]
    ELSE LET name1 == to_string(as_ptr(h[1]))
             value1 == to_string(as_ptr(h[2]))
         IN  IF name1.tag = "Err" \/ value1.tag = "Err"
             THEN [ret |-> Err(E_FAIL),
                   log |-> <<<<"alloc", "name">>, <<"alloc", "value">>,
                             <<"read", "name">>, <<"read", "value">>>>]
             ELSE [ret |-> Ok(<<name1.val, value1.val>>),
                   log |-> <<<<"alloc", "name">>, <<"alloc", "value">>,
                             <<"read", "name">>, <<"read", "value">>,
                             <<"free", "name">>, <<"free", "value">>>>]

\* HttpHeadersCollectionIterator::get_current_header on the header h: the
\* native call, which on success has allocated the two buffers; both are
\* decoded, both are freed, then the first decode error or the pair is
\* returned.
get_current_header(hr, h) ==
    IF check_hresult(hr).tag = "Err"
    THEN [ret |-> Err(hr), log |-> <<>>]
    ELSE LET name1 == to_string(as_ptr(h[1]))
             value1 == to_string(as_ptr(h[2]))
         IN  [ret |-> IF name1.tag = "Err" THEN name1
                      ELSE IF value1.tag = "Err" THEN value1
                      ELSE Ok(<<name1.val, value1.val>>),
              log |-> <<<<"alloc", "name">>, <<"alloc", "value">>,
                        <<"read", "name">>, <<"read", "value">>,
                        <<"free", "name">>, <<"free", "value">>>>]

\* get_string!: the native call, which on success has allocated the buffer;
\* the buffer is decoded, freed, and the decoded String or E_FAIL returned.
get_string(hr, units) ==
    IF check_hresult(hr).tag = "Err"
    THEN [ret |-> Err(hr), log |-> <<>>]
    ELSE [ret |-> to_string(as_ptr(units)),
          log |-> <<<<"alloc", "result">>, <<"read", "result">>,
                    <<"free", "result">>>>]

\* put_string!: WideCString::from_str(s)?, then check_hresult of the native
\* call on the terminated units.
put_string(s, hr) ==
    LET message == WideCString_from_str(s)
    IN  IF message.tag = "Err"
        THEN [ret |-> message, called |-> FALSE, sent |-> <<>>]
        ELSE [ret |-> check_hresult(hr), called |-> TRUE,
              sent |-> as_ptr(message.val)]

\* HttpRequestHeaders / HttpResponseHeaders::get_header: the name is
\* encoded first, then as get_string!.
get_header(name, hr, units) ==
    LET n == WideCString_from_str(name)
    IN  IF n.tag = "Err" THEN [ret |-> n, log |-> <<>>, called |-> FALSE]
        ELSE IF check_hresult(hr).tag = "Err"
        THEN [ret |-> Err(hr), log |-> <<>>, called |-> TRUE]
        ELSE [ret |-> to_string(as_ptr(units)),
              log |-> <<<<"alloc", "value">>, <<"read", "value">>,
                        <<"free", "value">>>>,
              called |-> TRUE]

\* Iterator::next without the move_next call.
Iterator_next_noAdvance(h, pos, fh, fg, fm) ==
    LET hc == get_bool(fh, NativeHasCurrent(h, pos))
    IN  IF ~(hc.tag = "Ok" /\ hc.val)
        THEN [ret |-> None, pos |-> pos, moved |-> 0, got |-> GetterNone]
        ELSE LET g == get_current_header(fg, h[pos])
             IN  [ret |-> IF g.ret.tag = "Ok" THEN Some(g.ret.val) ELSE None,
                  pos |-> pos, moved |-> 0,
                  got |-> GetterCall("get_current_header", fg, TRUE,
                                     h[pos], g)]

\* Iterator::next with the native iterator at pos, fh, fg and fm being the
\* statuses of the three native calls: None unless get_has_current_header
\* is Ok(true); else get_current_header().ok(), one move_next whose result
\* is ignored, and the header.
Iterator_next(h, pos, fh, fg, fm) ==
    LET hc == get_bool(fh, NativeHasCurrent(h, pos))
    IN  IF ~(hc.tag = "Ok" /\ hc.val)
        THEN [ret |-> None, pos |-> pos, moved |-> 0, got |-> GetterNone]
        ELSE LET g == get_current_header(fg, h[pos])
             IN  [ret |-> IF g.ret.tag = "Ok" THEN Some(g.ret.val) ELSE None,
                  pos |-> IF SUCCEEDED(fm) THEN NativeMoveNext(h, pos)
                          ELSE pos,
                  moved |-> 1,
                  got |-> GetterCall("get_current_header", fg, TRUE,
                                     h[pos], g)]

\* The host calls next() on the iterator.
IterNext ==
    /\ iNexts < MaxNexts
    /\ \E fh \in IterStatus, fg \in IterStatus, fm \in IterStatus :
        LET r == Iterator_next(hdrs, iPos, fh, fg, fm)
            called == r.got.who # "none"
            failed == \/ fh # S_OK
                      \/ called /\ (fg # S_OK \/ fm # S_OK \/ ~r.ret.some)
        IN  /\ iPos' = r.pos
            /\ iRet' = r.ret
            /\ iOut' = IF r.ret.some THEN Append(iOut, r.ret.val) ELSE iOut
            /\ iEnded' = (iEnded \/ ~r.ret.some)
            /\ iClean' = (iClean /\ ~failed)
            /\ iMoves' = iMoves + r.moved
            /\ iHad' = (NativeHasCurrent(hdrs, iPos) # 0)
            /\ gLast' = r.got
    /\ iNexts' = iNexts + 1
    /\ UNCHANGED <<hdrs, notStr>>

\* After next() has returned None the host calls move_next() itself.
MoveNextDirect ==
    /\ iEnded
    /\ iNexts < MaxNexts
    /\ \E fm \in IterStatus :
        /\ iPos' = IF SUCCEEDED(fm) THEN NativeMoveNext(hdrs, iPos) ELSE iPos
        /\ gLast' = [GetterNone EXCEPT
                        !.who = "move_next", !.hr = fm, !.called = TRUE,
                        !.ret = get_bool(fm, NativeHasCurrent(hdrs, iPos'))]
        /\ iClean' = (iClean /\ fm = S_OK)
    /\ iNexts' = iNexts + 1
    /\ UNCHANGED <<hdrs, iOut, iRet, iEnded, iMoves, iHad, notStr>>

\* The strings the native side returns, and the header names the host asks
\* for: A, and A followed by a NUL.
PoolStrings == {h[1] : h \in HeaderPool} \cup {h[2] : h \in HeaderPool}

HeaderNames == {<<65>>, <<65, 0>>}

\* A getter of the get_string! shape is called, on some other object (here
\* before the iteration starts: the iteration reads nothing a getter
\* writes).
GetStringCall ==
    /\ iNexts = 0
    /\ \E hr \in IterStatus, u \in PoolStrings :
        gLast' = GetterCall("get_string", hr, TRUE, <<u>>, get_string(hr, u))
    /\ UNCHANGED <<hdrs, iPos, iOut, iRet, iEnded, iClean, iNexts, iMoves,
                   iHad, notStr>>

\* get_header is called on the headers of a request or response.
GetHeader ==
    /\ iNexts = 0
    /\ \E name \in HeaderNames, hr \in IterStatus, u \in PoolStrings :
        LET r == get_header(name, hr, u)
        IN  gLast' = GetterCall("get_header", hr, r.called, <<u>>, r)
    /\ UNCHANGED <<hdrs, iPos, iOut, iRet, iEnded, iClean, iNexts, iMoves,
                   iHad, notStr>>

StrNext ==
    \/ IterNext
    \/ MoveNextDirect
    \/ GetStringCall
    \/ GetHeader

(***************************************************************************)
(* Properties: the get! / put!, get_bool! / put_bool! and get_string! /     *)
(* put_string! accessors of one property of a native object.               *)
(***************************************************************************)
MaxChars == 2

\* The characters of the host's strings: NUL, A, and one outside the basic
\* plane.
CodePoints == {0, 65, 128512}

HostStrings == UNION {[1 .. n -> CodePoints] : n \in 0 .. MaxChars}

Scalars == {-1, 0, 250}

\* Values the native side stores in a BOOL by itself.
NativeBools == {-1, 0, 1, 2}

\* Strings the native side stores by itself: a lone surrogate, and a pair.
NativeStrings == {<<65>>, <<55357>>, <<55357, 56832>>}

\* The host's handle on the object, and a clone of it.
Handles == {"handle", "clone"}

Shapes == {"scalar", "bool", "string"}

PropLastNone ==
    [who |-> "none", via |-> "handle", arg |-> 0, called |-> FALSE,
     sent |-> 0, native |-> 0, ret |-> NoResult]

PropOf(shape) ==
    [shape |-> shape,
     val |-> IF shape = "string" THEN <<>> ELSE 0]

\* A scalar property nobody touches.
PropIdle ==
    /\ prop = PropOf("scalar")
    /\ pPut = None
    /\ pLast = PropLastNone

\* An object with a property of one of the three shapes.
PropInit ==
    /\ \E shape \in Shapes : prop = PropOf(shape)
    /\ pPut = None
    /\ pLast = PropLastNone

\* put!: check_hresult of the native put with the value as given.
put(hr) == check_hresult(hr)

\* get!: check_hresult(call)?, then the value the native side wrote.
get(hr, native) ==
    IF check_hresult(hr).tag = "Err" THEN Err(hr) ELSE Ok(native)

\* put_bool!: the BOOL passed to the native put.
put_bool_arg(enabled) == IF enabled THEN 1 ELSE 0

\* The native property after a put of v that returned hr.
NativeAfterPut(p, v, hr) == IF SUCCEEDED(hr) THEN [p EXCEPT !.val = v] ELSE p

PutRemembered(v, hr) == IF SUCCEEDED(hr) THEN Some(v) ELSE pPut

Put ==
    /\ prop.shape = "scalar"
    /\ \E v \in Scalars, hr \in IterStatus, via \in Handles :
        /\ prop' = NativeAfterPut(prop, v, hr)
        /\ pPut' = PutRemembered(v, hr)
        /\ pLast' = [who |-> "put", via |-> via, arg |-> v, called |-> TRUE,
                     sent |-> v, native |-> 0, ret |-> put(hr)]
    /\ UNCHANGED notProp

Get ==
    /\ prop.shape = "scalar"
    /\ \E hr \in IterStatus, via \in Handles :
        pLast' = [who |-> "get", via |-> via, arg |-> 0, called |-> TRUE,
                  sent |-> 0, native |-> prop.val,
                  ret |-> get(hr, prop.val)]
    /\ UNCHANGED <<prop, pPut, notProp>>

PutBool ==
    /\ prop.shape = "bool"
    /\ \E enabled \in BOOLEAN, hr \in IterStatus, via \in Handles :
        /\ prop' = NativeAfterPut(prop, put_bool_arg(enabled), hr)
        /\ pPut' = PutRemembered(enabled, hr)
        /\ pLast' = [who |-> "put", via |-> via, arg |-> enabled,
                     called |-> TRUE, sent |-> put_bool_arg(enabled),
                     native |-> 0, ret |-> check_hresult(hr)]
    /\ UNCHANGED notProp

GetBool ==
    /\ prop.shape = "bool"
    /\ \E hr \in IterStatus, via \in Handles :
        pLast' = [who |-> "get", via |-> via, arg |-> 0, called |-> TRUE,
                  sent |-> 0, native |-> prop.val,
                  ret |-> get_bool(hr, prop.val)]
    /\ UNCHANGED <<prop, pPut, notProp>>

\* The native side sets the BOOL itself, to any value.
NativeSetsBool ==
    /\ prop.shape = "bool"
    /\ \E n \in NativeBools : prop' = [prop EXCEPT !.val = n]
    /\ pPut' = None
    /\ UNCHANGED <<pLast, notProp>>

\* The native put reads the string up to its terminator and stores it.
PutString ==
    /\ prop.shape = "string"
    /\ \E s \in HostStrings, hr \in IterStatus, via \in Handles :
        LET r == put_string(s, hr)
        IN  /\ prop' = IF r.called
                       THEN NativeAfterPut(prop, from_ptr_str(r.sent), hr)
                       ELSE prop
            /\ pPut' = IF r.called THEN PutRemembered(s, hr) ELSE pPut
            /\ pLast' = [who |-> "put", via |-> via, arg |-> s,
                         called |-> r.called, sent |-> r.sent,
                         native |-> 0, ret |-> r.ret]
    /\ UNCHANGED notProp

GetString ==
    /\ prop.shape = "string"
    /\ \E hr \in IterStatus, via \in Handles :
        pLast' = [who |-> "get", via |-> via, arg |-> 0, called |-> TRUE,
                  sent |-> 0, native |-> prop.val,
                  ret |-> get_string(hr, prop.val).ret]
    /\ UNCHANGED <<prop, pPut, notProp>>

\* The native side sets the string itself.
NativeSetsString ==
    /\ prop.shape = "string"
    /\ \E u \in NativeStrings : prop' = [prop EXCEPT !.val = u]
    /\ pPut' = None
    /\ UNCHANGED <<pLast, notProp>>

PropNext ==
    \/ Put
    \/ Get
    \/ PutBool
    \/ GetBool
    \/ NativeSetsBool
    \/ PutString
    \/ GetString
    \/ NativeSetsString

(***************************************************************************)
(* A one-shot completion handler invoked from several native threads: the  *)
(* closure body runs `completed.borrow_mut().take()` on a RefCell, whose   *)
(* borrow flag and contents are plain, unsynchronized memory.              *)
(***************************************************************************)
\* Number of native threads that invoke the same handler.
NInvokers == 2

Invokers == 1 .. NInvokers

\* RefCell's borrow flag when nothing is borrowed.
UNUSED == 0

\* The handlers that store their closure in a RefCell<Option<FnOnce>>.
TakeKinds == {"build", "execute_script"}

TakeOf(kind) ==
    [kind |-> kind, flag |-> UNUSED, slot |-> TRUE, runs |-> 0,
     pc |-> [t \in Invokers |-> "idle"],
     obs |-> [t \in Invokers |-> UNUSED],
     seen |-> [t \in Invokers |-> FALSE]]

TakeIdle == tk = TakeOf("build")

\* RefCell::new(Some(completed)), moved into the handler.
TakeInit == \E kind \in TakeKinds : tk = TakeOf(kind)

\* The native side calls the handler's invoke on thread t.
TakeInvoke(t) ==
    /\ tk.pc[t] = "idle"
    /\ tk' = [tk EXCEPT !.pc[t] = "borrow"]
    /\ UNCHANGED notTake

\* borrow_mut(): the borrow flag is read.
BorrowMutRead(t) ==
    /\ tk.pc[t] = "borrow"
    /\ tk' = [tk EXCEPT !.obs[t] = tk.flag, !.pc[t] = "borrowing"]
    /\ UNCHANGED notTake

\* borrow_mut(): a flag read as UNUSED is set to the writing state; any
\* other makes borrow_mut panic ("already borrowed").
BorrowMutSet(t) ==
    /\ tk.pc[t] = "borrowing"
    /\ IF tk.obs[t] = UNUSED
       THEN tk' = [tk EXCEPT !.flag = UNUSED - 1, !.pc[t] = "take"]
       ELSE tk' = [tk EXCEPT !.pc[t] = "panicked"]
    /\ UNCHANGED notTake

\* Option::take(): the Option is read.
TakeRead(t) ==
    /\ tk.pc[t] = "take"
    /\ tk' = [tk EXCEPT !.seen[t] = tk.slot, !.pc[t] = "taking"]
    /\ UNCHANGED notTake

\* Option::take(): None is written in its place.
TakeWrite(t) ==
    /\ tk.pc[t] = "taking"
    /\ tk' = [tk EXCEPT !.slot = FALSE, !.pc[t] = "call"]
    /\ UNCHANGED notTake

\* The value taken: Some(closure) is called; None is unwrap's panic in
\* build's handler and Ok(()) in execute_script's. The RefMut is a
\* temporary of the whole expression, still alive here; a panic drops it
\* when it unwinds and not when it aborts.
TakeCall(t) ==
    /\ tk.pc[t] = "call"
    /\ \/ /\ tk.seen[t]
          /\ tk' = [tk EXCEPT !.runs = @ + 1, !.pc[t] = "ran"]
       \/ /\ ~tk.seen[t]
          /\ tk.kind = "execute_script"
          /\ tk' = [tk EXCEPT !.pc[t] = "ran"]
       \/ /\ ~tk.seen[t]
          /\ tk.kind = "build"
          /\ \E unwound \in BOOLEAN :
                tk' = [tk EXCEPT !.pc[t] = "panicked",
                                 !.flag = IF unwound THEN @ + 1 ELSE @]
    /\ UNCHANGED notTake

\* The RefMut is dropped at the end of the handler's expression: the
\* borrow flag is incremented.
RefMutDrop(t) ==
    /\ tk.pc[t] = "ran"
    /\ tk' = [tk EXCEPT !.flag = @ + 1, !.pc[t] = "returned"]
    /\ UNCHANGED notTake

TakeNext ==
    \E t \in Invokers :
        \/ TakeInvoke(t)
        \/ BorrowMutRead(t)
        \/ BorrowMutSet(t)
        \/ TakeRead(t)
        \/ TakeWrite(t)
        \/ TakeCall(t)
        \/ RefMutDrop(t)

(***************************************************************************)
(* Specifications, one per component, and their properties.                *)
(***************************************************************************)
InitHr ==
    /\ HrInit /\ StreamIdle /\ LoaderInit /\ CbInit /\ RcInit /\ StrIdle
    /\ PropIdle /\ TakeIdle

NextHr == HrNext

SpecHr == InitHr /\ [][NextHr]_vars

\* C10: check_hresult(h) is Ok(()) exactly when the sign bit of h is clear
\* (h >= 0, success codes other than S_OK included), and otherwise it is
\* Err(e) with e.hresult() = h.
C10_CheckHresult ==
    hPc = "checked" =>
        /\ (hOut.tag = "Ok") <=> (SignBit(hIn) = 0 /\ hIn >= 0)
        /\ hOut.tag = "Ok" => hOut.val = "()"
        /\ hOut.tag # "Ok" => (hOut.tag = "Err" /\ hresult_of(hOut) = hIn)

\* A success code other than S_OK has been checked and found Ok.
C10_Witness ==
    hPc = "checked" /\ hIn = S_FALSE /\ hOut.tag = "Ok"

\* C11: to_hresult maps every Ok value to S_OK and every Err(e) to
\* e.hresult() unchanged, so to_hresult(check_hresult(h)) is h for a failure
\* h and S_OK for every success code h.
C11_ToHresult ==
    /\ hPc = "converted" => hBack = (IF hIn < 0 THEN hIn ELSE S_OK)
    /\ (hPc = "mapped" /\ hOut.tag = "Ok") => hBack = S_OK
    /\ (hPc = "mapped" /\ hOut.tag = "Err") => hBack = hIn

\* A failure code other than E_FAIL has gone through check_hresult and
\* to_hresult.
C11_Witness ==
    hPc = "converted" /\ hIn = E_INVALIDARG /\ hBack = E_INVALIDARG

\* C17 (as claimed): for every OS error code c, the io::Error made by
\* from_raw_os_error(c), converted into an Error and back, has raw OS error
\* c; and an Error whose upper 16 bits are not 0x8007 converts to an
\* io::Error of kind Other carrying the status, with no raw OS error.
C17_IoRoundTripAll ==
    /\ hPc = "into_io" => hIo = IoOs(hIn)
    /\ (hPc = "to_io"
            /\ hIn - (hIn % 65536) # MAKE_HRESULT_ERROR(FACILITY_WIN32, 0))
        => hIo = IoOther(hIn)

\* C17 (amended): the round trip returns raw OS error c for every code c
\* in 1 .. 65535, the codes HRESULT_FROM_WIN32 keeps whole; and an Error
\* whose upper 16 bits are not 0x8007 converts to an io::Error of kind
\* Other carrying the status, with no raw OS error.
C17_IoRoundTrip ==
    /\ (hPc = "into_io" /\ hIn \in 1 .. 65535) => hIo = IoOs(hIn)
    /\ (hPc = "to_io"
            /\ hIn - (hIn % 65536) # MAKE_HRESULT_ERROR(FACILITY_WIN32, 0))
        => hIo = IoOther(hIn)

\* The largest code that fits has made the round trip.
C17_Witness ==
    hPc = "into_io" /\ hIn = 65535 /\ hIo = IoOs(65535)

InitStream ==
    /\ StreamInit /\ HrIdle /\ LoaderInit /\ CbInit /\ RcInit /\ StrIdle
    /\ PropIdle /\ TakeIdle

NextStream == StreamNext

SpecStream == InitStream /\ [][NextStream]_vars

\* C9: from_bytes(B), seek End(0), write_all(S), seek Start(0), read_to_end
\* yields B followed by S, and every seek passed the native stream origin
\* code 0 for Start, 1 for Current, 2 for End.
C9_StreamRoundTrip ==
    /\ sPc \in {"done", "dropped"} => sOut = sB \o sS
    /\ sPc # "failed"
    /\ \A i \in 1 .. Len(sSeeks) :
        sSeeks[i] \in {<<"Start", 0>>, <<"Current", 1>>, <<"End", 2>>}

\* The scenario has run to its end with both B and S non-empty and a
\* Current seek among its seeks.
C9_Witness ==
    /\ sPc = "done"
    /\ sB # <<>>
    /\ sS # <<>>
    /\ Len(sOut) = Len(sB) + Len(sS)
    /\ \E i \in 1 .. Len(sSeeks) : sSeeks[i][1] = "Current"

InitLoader ==
    /\ LoaderInit /\ HrIdle /\ StreamIdle /\ CbInit /\ RcInit /\ StrIdle
    /\ PropIdle /\ TakeIdle

NextLoader ==
    \E t \in Threads :
        \/ BuildBegin(t)
        \/ LazyEnter(t)
        \/ LazyInit(t)
        \/ LazyGet(t)
        \/ BuildResolve(t)

SpecLoader == InitLoader /\ [][NextLoader]_vars

\* C6: across concurrent and sequential build() calls without a DLL path,
\* MemoryLoadLibrary runs at most once, and every call observes the same
\* outcome of the load (the same module handle, or the same OS error code);
\* a cached failure is never retried.
C6_LoadOnce ==
    /\ lLoads <= 1
    /\ Cardinality(lObs) <= 1
    /\ \A t \in Threads : lPc[t] = "loaded" => lazy.value \in lObs
    /\ \A t \in Threads :
        (lPc[t] = "idle" /\ lCalls[t] > 0 /\ ~lazy.value.ok)
            => lRet[t] = Err(HRESULT_FROM_WIN32(lazy.value.v))

\* Both threads have each completed two build() calls after a failed load.
C6_Witness ==
    /\ lLoads = 1
    /\ ~lazy.value.ok
    /\ \A t \in Threads : lCalls[t] >= 2 /\ lPc[t] = "idle" /\ lRet[t].tag = "Err"

InitCb ==
    /\ CbInit /\ HrIdle /\ StreamIdle /\ LoaderInit /\ RcInit /\ StrIdle
    /\ PropIdle /\ TakeIdle

NextCb ==
    \/ Build
    \/ CreateController
    \/ CapturePreview
    \/ ExecuteScript
    \/ AddScriptToExecuteOnDocumentCreated
    \/ Accept
    \/ InvokeCreated
    \/ InvokeCapturePreview
    \/ InvokeScript
    \/ NativeRelease
    \/ AddEventHandler
    \/ InvokeEvent
    \/ RemoveEventHandler
    \/ RaiseAfterRemoval
    \/ \E o \in CbObjs : DropKept(o)

SpecCb == InitCb /\ [][NextCb]_vars

\* C2: add_ref_to_rc performs one AddRef and the drop of the handle one
\* Release: the count of an object is what the native side holds plus one
\* per live handle, and after an invocation of an event or completion
\* handler whose closure keeps none of its handles, the counts of sender,
\* args and the created object are what they were when the handler was
\* called.
C2_WrapBorrowingBalanced ==
    /\ \A o \in {"sender", "args", "created"} : cRc[o] = NativeRefs + kept[o]
    /\ (cLast.who \in {"ev", "op"} /\ ~cLast.keep /\ Alive)
        => cLast.after = cLast.before

\* An event handler has run a second time, wrapped its sender and args, and
\* its closure kept neither, while a handle kept earlier is still live.
C2_Witness ==
    /\ cLast.who = "ev"
    /\ cLast.touched
    /\ ~cLast.keep
    /\ ev.invokes = 2
    /\ kept["sender"] = 1
    /\ cLast.after["sender"] = cLast.before["sender"]

\* C4 (as claimed): a second invocation of a one-shot completion handler
\* whose closure is already consumed, with a success status and a decodable
\* result, does not run the closure, does not crash, and returns S_OK.
C4_SecondInvokeIsNoop ==
    (op.invokes >= 2 /\ cLast.who = "op" /\ ~cLast.hadCb
        /\ SUCCEEDED(cLast.hr) /\ cLast.decodable)
    => (~cLast.ran /\ ~cLast.panicked /\ cLast.ret = S_OK
        /\ op.pc \notin PanicOutcomes)

\* C5: the pointer new_ptr returns has a reference count of one, and the
\* creation and registration calls hand it to the native side with the
\* count still one.
C5_NewPtrCountOne ==
    /\ op.made => (op.rcAtNew = 1 /\ op.rcAtCall = 1)
    /\ op.pc = "calling" => op.adRc = 1
    /\ ev.state # "none" => (ev.rcAtNew = 1 /\ ev.rcAtCall = 1)

\* A completion handler is inside its creation call and an event handler is
\* registered.
C5_Witness ==
    /\ op.made
    /\ op.pc = "calling"
    /\ ev.state = "registered"

\* C7: when build or create_controller was accepted and its handler has been
\* invoked once, the host closure has run once, on Ok(handle on the created
\* pointer) for a success status and on Err(the same status) for a failure,
\* and for a failure the created pointer was not touched.
C7_CreatedFiresOnce ==
    (op.kind \in {"build", "create_controller"} /\ op.invokes = 1)
    => /\ op.runs = 1
       /\ op.inHr >= 0 => op.arg = Ok("created")
       /\ op.inHr < 0 => (op.arg = Err(op.inHr) /\ ~op.touched)

\* build's handler has been invoked once, with a failing status.
C7_Witness ==
    /\ op.kind = "build"
    /\ op.invokes = 1
    /\ op.runs = 1
    /\ op.inHr < 0
    /\ op.arg.tag = "Err"

\* C8 (as claimed): when a completion handler is invoked with a failing
\* status, or with a result that does not decode, the host closure is run
\* and receives the error.
C8_ErrorReachesClosure ==
    (cLast.who = "op" /\ op.invokes = 1
        /\ (~SUCCEEDED(cLast.hr) \/ ~cLast.decodable))
    => (cLast.ran /\ op.runs = 1 /\ op.arg.tag = "Err")

\* C21 (as claimed): every object the binding allocates, a callback adapter
\* or the environment options object, is destroyed once the native side
\* has released every reference it took (the completion was delivered, the
\* handler was removed, or the creation or registration call failed): its
\* reference count is zero, and with it the captured closure is dropped.
C21_AllocatedObjectsDestroyed ==
    /\ (op.made /\ op.pc = "returned" /\ ~op.held)
        => (op.adRc = 0 /\ op.optRc = 0)
    /\ ev.state \in {"removed", "failed"} => ev.adRc = 0

\* C19: the closure of a persistent event handler is never consumed: after
\* n native invocations between registration and removal it has run n
\* times, once inside each invocation, and each invocation returned the
\* status of that run's result, S_OK for Ok and the carried code for Err.
C19_EventClosureRunsEachTime ==
    /\ ev.runs = ev.invokes
    /\ cLast.who = "ev"
        => /\ cLast.ran
           /\ cLast.host.tag = "Ok" => cLast.ret = S_OK
           /\ cLast.host.tag = "Err" => cLast.ret = cLast.host.hresult

\* Two invocations before the removal, the second closure run returning
\* an error.
C19_Witness ==
    /\ ev.rm = "Ok"
    /\ ev.before = 2
    /\ ev.runs = 2
    /\ cLast.who = "ev"
    /\ cLast.host = Err(E_INVALIDARG)
    /\ cLast.ret = E_INVALIDARG

C15_NulRejectedBeforeNative ==
    op.nul # "none"
    => /\ op.pc = "returned"
       /\ op.ret = Err(E_INVALIDARG)
       /\ ~op.loaded
       /\ ~op.made
       /\ op.runs = 0

\* C16: build() with no DLL path in a crate compiled without the embedded
\* mode ends in the configuration panic, not in an Err; a failed library
\* load or symbol resolution returns Err carrying the OS error; in neither
\* case is the creation function called or the completion closure run.
C16_NoPathIsConfigError ==
    /\ (op.kind = "build" /\ op.path = "none" /\ ~op.embedded)
        => /\ op.pc = "config_panic"
           /\ op.ret = NoResult
           /\ ~op.loadFailed
    /\ op.loadFailed
        => /\ op.pc = "returned"
           /\ \E c \in OsErrors : op.ret = Err(HRESULT_FROM_WIN32(c))
    /\ (op.pc = "config_panic" \/ op.loadFailed)
        => (~op.made /\ op.runs = 0 /\ op.invokes = 0 /\ ~op.held)

\* build() without a DLL path and without the embedded mode has panicked.
C16_Witness ==
    /\ op.kind = "build"
    /\ op.path = "none"
    /\ ~op.embedded
    /\ op.pc = "config_panic"

\* C12: a persistent event handler that is registered and then removed with
\* the returned token before any event was dispatched is never run by a
\* later event.
C12_RemovedNeverRuns ==
    (ev.rm = "Ok" /\ ev.before = 0) => (ev.runs = 0 /\ ev.invokes = 0)

\* The handler was removed before any event, and events were raised
\* afterwards.
C12_Witness ==
    /\ ev.rm = "Ok"
    /\ ev.before = 0
    /\ ev.missed = 2
    /\ ev.runs = 0

InitRc ==
    /\ RcInit /\ HrIdle /\ StreamIdle /\ LoaderInit /\ CbInit /\ StrIdle
    /\ PropIdle /\ TakeIdle

NextRc ==
    \/ GetInterface
    \/ StreamFromBytes
    \/ StreamFromRaw
    \/ \E i \in Slots : CloneHandle(i)
    \/ \E i \in Slots : DropHandle(i)
    \/ \E i \in Slots : PutInterface(i)

SpecRc == InitRc /\ [][NextRc]_vars

\* C1 (as claimed): a handle built from a pointer a native out-parameter
\* already credited with one reference is wrapped with no AddRef by the
\* binding, and once it has been dropped (nothing else having changed the
\* object's count meanwhile) the count is what it was before the getter or
\* creation call.
C1_OwningWrapAddsNoRef ==
    /\ lastGet.done => lastGet.bindingAddRefs = 0
    /\ (lastDrop.done /\ lastDrop.how \in {"getter", "raw"} /\ lastDrop.clean)
        => lastDrop.after = lastDrop.base

\* C3 (as claimed): after a put that takes a handle by value, the one
\* reference of the consumed handle has been released: the count is its
\* count before the call, minus one, plus what the native side added.
C3_PutReleasesHandle ==
    lastPut.done => lastPut.after = lastPut.base - 1 + lastPut.nativeAdded

InitStr ==
    /\ StrInit /\ HrIdle /\ StreamIdle /\ LoaderInit /\ CbInit /\ RcInit
    /\ PropIdle /\ TakeIdle

NextStr == StrNext

SpecStr == InitStr /\ [][NextStr]_vars

\* The pair of Strings a header of the collection stands for.
HeaderStrings(h) == <<from_utf16(h[1]).s, from_utf16(h[2]).s>>

\* C13: while every native call succeeds and every header decodes, the
\* pairs next() has yielded are the headers before the native iterator's
\* position, in the collection's order, next() having called move_next once
\* per pair; when next() has returned None all n headers were yielded, the
\* iterator has no current header, and a further move_next leaves it so.
C13_IterationYieldsAll ==
    iClean =>
        /\ Len(iOut) = iPos - 1
        /\ iMoves = Len(iOut)
        /\ \A i \in 1 .. Len(iOut) : iOut[i] = HeaderStrings(hdrs[i])
        /\ iEnded =>
            /\ Len(iOut) = Len(hdrs)
            /\ NativeHasCurrent(hdrs, iPos) = 0
            /\ gLast.who = "move_next" => gLast.ret = Ok(FALSE)

\* Two headers were yielded in order, next() returned None, and a further
\* move_next was made.
C13_Witness ==
    /\ iClean
    /\ iEnded
    /\ hdrs = <<<<<<65>>, <<49>>>>, <<<<66>>, <<50>>>>>>
    /\ iOut = <<<<<<65>>, <<49>>>>, <<<<66>>, <<50>>>>>>
    /\ gLast.who = "move_next"

InitProp ==
    /\ PropInit /\ HrIdle /\ StreamIdle /\ LoaderInit /\ CbInit /\ RcInit
    /\ StrIdle /\ TakeIdle

NextProp == PropNext

SpecProp == InitProp /\ [][NextProp]_vars

\* C14: after a successful put of v, a get on the handle or on a clone that
\* succeeds returns v, for a scalar, a boolean and a string property;
\* put_bool passes 1 for true and 0 for false, and get_bool returns false
\* exactly when the native side delivered 0.
C14_PutGetRoundTrip ==
    /\ (pLast.who = "get" /\ pLast.ret.tag = "Ok" /\ pPut.some)
        => pLast.ret.val = pPut.val
    /\ (pLast.who = "put" /\ prop.shape = "bool")
        => /\ pLast.arg = TRUE => pLast.sent = 1
           /\ pLast.arg = FALSE => pLast.sent = 0
    /\ (pLast.who = "get" /\ prop.shape = "bool" /\ pLast.ret.tag = "Ok")
        => (pLast.ret.val = FALSE <=> pLast.native = 0)

\* A string with a character outside the basic plane was put and then read
\* back through a clone.
C14_Witness ==
    /\ prop.shape = "string"
    /\ pLast.who = "get"
    /\ pLast.via = "clone"
    /\ pPut.some
    /\ pLast.ret.tag = "Ok"
    /\ pLast.ret.val = <<128512, 65>>

\* The buffers a successful native call of a getter returns.
BuffersOf(who) ==
    IF who = "get_current_header" THEN {"name", "value"}
    ELSE IF who = "get_string" THEN {"result"}
    ELSE IF who = "get_header" THEN {"value"}
    ELSE {}

\* The positions of an event in a log.
Positions(log, e) == {i \in 1 .. Len(log) : log[i] = e}

\* C18: in get_string, get_header and get_current_header every buffer a
\* successful native call returned is freed exactly once, after it was read
\* and with no use after the free, whether or not the strings decode; a
\* string that does not decode gives Err(E_FAIL); when the native call
\* fails nothing is freed and its status is returned.
C18_BuffersFreedOnce ==
    LET bufs == BuffersOf(gLast.who)
        log == gLast.log
    IN  /\ (bufs # {} /\ gLast.called /\ SUCCEEDED(gLast.hr))
            => /\ \A b \in bufs :
                    /\ Cardinality(Positions(log, <<"free", b>>)) = 1
                    /\ Positions(log, <<"read", b>>) # {}
                    /\ \A f \in Positions(log, <<"free", b>>) :
                        /\ \A r \in Positions(log, <<"read", b>>) : r < f
                        /\ \A i \in (f + 1) .. Len(log) : log[i][2] # b
               /\ (\E i \in 1 .. Len(gLast.units) :
                        ~from_utf16(gLast.units[i]).ok)
                    => gLast.ret = Err(E_FAIL)
               /\ (\A i \in 1 .. Len(gLast.units) :
                        from_utf16(gLast.units[i]).ok)
                    => gLast.ret.tag = "Ok"
        /\ (bufs # {} /\ gLast.called /\ ~SUCCEEDED(gLast.hr))
            => /\ log = <<>>
               /\ gLast.ret = Err(gLast.hr)

\* get_current_header was given a name that decodes and a value that does
\* not: E_FAIL, and both buffers freed.
C18_Witness ==
    /\ gLast.who = "get_current_header"
    /\ gLast.units = <<<<65>>, <<56832>>>>
    /\ gLast.ret.tag = "Err"
    /\ Positions(gLast.log, <<"free", "name">>) # {}
    /\ Positions(gLast.log, <<"free", "value">>) # {}

\* C22 (as claimed): next() returns None only when the native iterator has
\* no current header, so that no header is skipped, and once next() has
\* returned None every later next() returns None, also when
\* get_has_current_header or get_current_header fails on some call.
C22_NoneOnlyAtEnd ==
    /\ (iNexts > 0 /\ ~iRet.some) => ~iHad
    /\ iEnded => ~iRet.some

\* C23 (as claimed): whenever a host closure run inside a callback returns
\* Err, of an Error made by Error::new with any code or converted from any
\* io::Error, the status the callback returns to the native side is a
\* failure status: negative, the sign bit set.
C23_HostErrIsFailure ==
    /\ (hPc = "mapped" /\ hOut.tag = "Err") => SignBit(hBack) = 1
    /\ hPc = "from_io_mapped" => SignBit(hBack) = 1

InitTake ==
    /\ TakeInit /\ HrIdle /\ StreamIdle /\ LoaderInit /\ CbInit /\ RcInit
    /\ StrIdle /\ PropIdle

NextTake == TakeNext

SpecTake == InitTake /\ [][NextTake]_vars

\* C24 (as claimed): when the native side invokes the same one-shot
\* completion handler from two threads whose executions interleave, the
\* host closure runs at most once in every interleaving.
C24_ClosureRunsAtMostOnce == tk.runs <= 1

====
